---- MODULE Spec2Model ----
(***************************************************************************)
(* Model of src/src/helpers.js of Leaflet.SmoothMarkerBouncing: the line   *)
(* rasterizer (calculateLine), the trajectory builders                     *)
(* (calculateIconMovePoints, calculateShadowMovePoints and the transform   *)
(* builders) and the timing engine (calculateSteps, calculateDelays,       *)
(* calculateTimeline) with its module-wide cache bouncingMotionsCache.     *)
(*                                                                         *)
(* Every function is modelled at the granularity of its loops: one action  *)
(* per loop iteration, and for the loops whose test has a side effect      *)
(* (while (i--), while (--i)) one action for the test and one for the      *)
(* body.  JavaScript runs one call at a time, so exactly one frame (loc)   *)
(* executes, with at most one suspended caller (outer).                    *)
(***************************************************************************)
EXTENDS Integers, Sequences, FiniteSets, TLC

VARIABLES
    bouncingMotionsCache, \* helpers.js:19, key (string) -> reference of the cached array
    heap,                 \* the arrays the cache refers to, by reference (1..Len(heap))
    madeBy,               \* history: the function that built heap[r]
    marker,               \* the marker handed to calculateTimeline
    pc,                   \* position of the running call, "idle" between calls
    call,                 \* the top-level call in progress, or the last one made
    loc,                  \* locals of the function that is executing
    outer,                \* locals of its suspended caller, if any
    ret,                  \* value of the last return statement executed
    calls,                \* number of top-level calls made
    lastSteps,            \* history: the last return of calculateSteps
    lastDelays,           \* history: the last return of calculateDelays
    seen                  \* history: request -> reference it got the first time

vars == <<bouncingMotionsCache, heap, madeBy, marker, pc, call, loc, outer, ret,
          calls, lastSteps, lastDelays, seen>>

----------------------------------------------------------------------------
(* Bounds of the model.                                                     *)

MaxHeight == 3      \* bounceHeight, contractHeight, height range over 0..MaxHeight
MaxSpeed == 2       \* bounceSpeed, contractSpeed, speed range over 1..MaxSpeed
MaxLength == 4      \* calculateLine's length ranges over 1..MaxLength
MaxCalls == 2       \* top-level calls of the timing engine in one behaviour
MaxInvalid == 2     \* invalid heights and lengths range over -MaxInvalid..-1 (and 0)

\* Loop counters are exact down to -LoopCap and saturate there (a double
\* saturates too, at -2^53): below it the model only records "still negative".
LoopCap == 2 * MaxHeight + MaxLength + MaxInvalid + 2

Heights == 0..MaxHeight
Speeds == 1..MaxSpeed
Lengths == 1..MaxLength
InvalidHeights == (0 - MaxInvalid)..(0 - 1)
InvalidLengths == (0 - MaxInvalid)..0

Origins == {<<0, 0>>, <<10, 20>>, <<-3, 7>>}

\* cos(k * pi / 8) in thousandths, k = 0..15
CosTable == <<1000, 924, 707, 383, 0, -383, -707, -924,
              -1000, -924, -707, -383, 0, 383, 707, 924>>

\* An angle is <<k>>, the number k * pi / 8 (so <<0>> is the number 0), or Null.
Null == <<>>
Angles == {<<k>> : k \in 0..(Len(CosTable) - 1)}

\* Prefixes of the direct calls: "any string with trailing _" (helpers.js:247).
Prefixes == {"moveDelays_", "moveDelays_1_"}

NoFrame == [fn |-> "none"]
NoValue == <<>>
Undefined == 0      \* an unset property of marker._bouncingMotion (no heap reference)

DefaultOptions ==
    [bounceHeight |-> 1, bounceSpeed |-> 1, elastic |-> TRUE,
     contractHeight |-> 1, contractSpeed |-> 1]

NoMotion ==
    [moveSteps |-> Undefined, moveDelays |-> Undefined,
     resizeSteps |-> Undefined, resizeDelays |-> Undefined]

NoReturn == [valid |-> FALSE]

----------------------------------------------------------------------------
(* JavaScript values.                                                       *)

\* An array: its length and its own properties (indices and, for a negative
\* key, a plain property that does not count in length).
EmptyArray == [length |-> 0, elems |-> <<>>]

ArrSet(a, k, v) ==
    [length |-> IF k >= a.length THEN k + 1 ELSE a.length,
     elems |-> (k :> v) @@ a.elems]

ArrPush(a, v) == ArrSet(a, a.length, v)

ArrGet(a, k) == a.elems[k]

IsDense(a) == \A k \in 0..(a.length - 1) : k \in DOMAIN a.elems

AsSeq(a) == [n \in 1..a.length |-> a.elems[n - 1]]

\* i - 1 for a loop counter (see LoopCap)
Dec(i) == IF i > 0 - LoopCap THEN i - 1 ELSE i

\* Math.round(n / d) for d > 0: the nearest integer, a half rounds up
MathRound(n, d) == (2 * n + d) \div (2 * d)

MathAbs(n) == IF n < 0 THEN 0 - n ELSE n

CosMilli(angle) == CosTable[angle[1] + 1]
SinMilli(angle) == CosTable[((angle[1] + 12) % Len(CosTable)) + 1]

\* number + string concatenation
Str(n) == ToString(n)

----------------------------------------------------------------------------
(* Control transfer.                                                        *)

\* return v: to the suspended caller if there is one, else the call is over
Return(v) ==
    /\ ret' = v
    /\ IF outer.fn = "none"
       THEN pc' = "idle" /\ loc' = NoFrame /\ outer' = outer
       ELSE pc' = outer.resume /\ loc' = outer /\ outer' = NoFrame

TimingUnchanged ==
    UNCHANGED <<bouncingMotionsCache, heap, madeBy, marker, calls,
                lastSteps, lastDelays, seen>>

----------------------------------------------------------------------------
(* calculateLine (helpers.js:68-103).                                       *)

\* faulty variant of LineBreak: the break comes one iteration late
LineBreakLate(i, length) == i > length

\* if (i === length) break
LineBreak(i, length) == i = length

LineInit(x, y, angle, length) ==
    LET xD == MathRound(1000 * x + CosMilli(angle) * (length * 2), 1000)
        yD == MathRound(1000 * y + SinMilli(angle) * (length * 2), 1000)
        dx == MathAbs(xD - x)
        dy == MathAbs(yD - y)
    IN  [fn |-> "calculateLine", x |-> x, y |-> y, length |-> length,
         dx |-> dx, sx |-> IF x < xD THEN 1 ELSE -1,
         dy |-> dy, sy |-> IF y < yD THEN 1 ELSE -1,
         err2 |-> IF dx > dy THEN dx ELSE 0 - dy,   \* twice err: err is a multiple of 1/2
         p |-> EmptyArray, i |-> 0]

\* lines 87-88
LinePush(f) == [f EXCEPT !.p = ArrPush(f.p, <<f.x, f.y>>), !.i = f.i + 1]

\* lines 91-99
LineMove(f) ==
    LET e2 == f.err2
        moveX == e2 > 0 - 2 * f.dx
        moveY == e2 < 2 * f.dy
    IN  [f EXCEPT !.err2 = e2 - (IF moveX THEN 2 * f.dy ELSE 0)
                              + (IF moveY THEN 2 * f.dx ELSE 0),
                  !.x = IF moveX THEN f.x + f.sx ELSE f.x,
                  !.y = IF moveY THEN f.y + f.sy ELSE f.y]

\* one iteration of while (true): push, count, and either break or move on
calculateLine_loop ==
    /\ pc = "calculateLine_loop"
    /\ loc.i < LoopCap
    /\ LET f == LinePush(loc)
       IN  IF LineBreak(f.i, f.length)
           THEN pc' = "calculateLine_return" /\ loc' = f
           ELSE pc' = pc /\ loc' = LineMove(f)
    /\ UNCHANGED <<outer, ret, call>>
    /\ TimingUnchanged

calculateLine_return ==
    /\ pc = "calculateLine_return"
    /\ Return(loc.p)
    /\ UNCHANGED call
    /\ TimingUnchanged

\* the whole function, for the inputs on which it returns
RECURSIVE LineRun(_)
LineRun(f) ==
    LET g == LinePush(f)
    IN  IF LineBreak(g.i, g.length) THEN g.p ELSE LineRun(LineMove(g))

calculateLine(x, y, angle, length) == LineRun(LineInit(x, y, angle, length))

calculateLine_call(lengths) ==
    /\ pc = "idle"
    /\ \E o \in Origins, angle \in Angles, length \in lengths :
          /\ call' = [op |-> "calculateLine", x |-> o[1], y |-> o[2],
                      angle |-> angle, length |-> length]
          /\ loc' = LineInit(o[1], o[2], angle, length)
    /\ pc' = "calculateLine_loop"
    /\ ret' = NoValue
    /\ UNCHANGED outer
    /\ TimingUnchanged

----------------------------------------------------------------------------
(* calculateIconMovePoints (helpers.js:115-125).                            *)

calculateIconMovePoints_call(heights) ==
    /\ pc = "idle"
    /\ \E o \in Origins, bounceHeight \in heights :
          /\ call' = [op |-> "calculateIconMovePoints", x |-> o[1], y |-> o[2],
                      bounceHeight |-> bounceHeight]
          /\ loc' = [fn |-> "calculateIconMovePoints", x |-> o[1], y |-> o[2],
                     p |-> EmptyArray, dH |-> bounceHeight + 1]
    /\ pc' = "calculateIconMovePoints_test"
    /\ ret' = NoValue
    /\ UNCHANGED outer
    /\ TimingUnchanged

\* while (dH--): the test reads dH, then decrements it
calculateIconMovePoints_test ==
    /\ pc = "calculateIconMovePoints_test"
    /\ IF loc.dH # 0
       THEN /\ pc' = "calculateIconMovePoints_body"
            /\ loc' = [loc EXCEPT !.dH = Dec(loc.dH)]
            /\ UNCHANGED <<outer, ret>>
       ELSE Return(loc.p)
    /\ UNCHANGED call
    /\ TimingUnchanged

calculateIconMovePoints_body ==
    /\ pc = "calculateIconMovePoints_body"
    /\ loc' = [loc EXCEPT !.p = ArrSet(loc.p, loc.dH, <<loc.x, loc.y - loc.dH>>)]
    /\ pc' = "calculateIconMovePoints_test"
    /\ UNCHANGED <<outer, ret, call>>
    /\ TimingUnchanged

----------------------------------------------------------------------------
(* calculateShadowMovePoints (helpers.js:139-151).                          *)

\* faulty variant of AngleGiven: if (angle), which takes the number 0 for "no angle"
AngleTruthy(angle) == angle # Null /\ angle # <<0>>

\* angle != null  ("important: 0 is not null")
AngleGiven(angle) == angle # Null

calculateShadowMovePoints_call(heights) ==
    /\ pc = "idle"
    /\ \E o \in Origins, bounceHeight \in heights, angle \in Angles \cup {Null} :
          /\ call' = [op |-> "calculateShadowMovePoints", x |-> o[1], y |-> o[2],
                      bounceHeight |-> bounceHeight, angle |-> angle]
          /\ loc' = [fn |-> "calculateShadowMovePoints", x |-> o[1], y |-> o[2],
                     bounceHeight |-> bounceHeight, angle |-> angle,
                     p |-> EmptyArray, i |-> 0,
                     resume |-> "calculateShadowMovePoints_return"]
    /\ pc' = "calculateShadowMovePoints_if"
    /\ ret' = NoValue
    /\ UNCHANGED outer
    /\ TimingUnchanged

calculateShadowMovePoints_if ==
    /\ pc = "calculateShadowMovePoints_if"
    /\ IF AngleGiven(loc.angle)
       THEN /\ outer' = loc
            /\ loc' = LineInit(loc.x, loc.y, loc.angle, loc.bounceHeight + 1)
            /\ pc' = "calculateLine_loop"
       ELSE /\ pc' = "calculateShadowMovePoints_for"
            /\ UNCHANGED <<loc, outer>>
    /\ UNCHANGED <<ret, call>>
    /\ TimingUnchanged

\* return calculateLine(...)
calculateShadowMovePoints_return ==
    /\ pc = "calculateShadowMovePoints_return"
    /\ Return(ret)
    /\ UNCHANGED call
    /\ TimingUnchanged

\* for (let i = 0; i <= bounceHeight; i++) p[i] = [x, y]; return p
calculateShadowMovePoints_for ==
    /\ pc = "calculateShadowMovePoints_for"
    /\ IF loc.i <= loc.bounceHeight
       THEN /\ loc' = [loc EXCEPT !.p = ArrSet(loc.p, loc.i, <<loc.x, loc.y>>),
                                  !.i = loc.i + 1]
            /\ UNCHANGED <<pc, outer, ret>>
       ELSE Return(loc.p)
    /\ UNCHANGED call
    /\ TimingUnchanged

----------------------------------------------------------------------------
(* The transform builders (helpers.js:164-176 and 191-213).                 *)

\* ' matrix3d(1,0,0,0,0,1,0,0,0,0,1,0,' + tx + ',' + ty + ',0,1) '
Matrix3d(tx, ty) ==
    " matrix3d(1,0,0,0,0,1,0,0,0,0,1,0," \o Str(tx) \o "," \o Str(ty) \o ",0,1) "

calculateIconMoveTransforms_call(heights) ==
    /\ pc = "idle"
    /\ \E o \in Origins, bounceHeight \in heights :
          /\ call' = [op |-> "calculateIconMoveTransforms", x |-> o[1], y |-> o[2],
                      bounceHeight |-> bounceHeight]
          /\ loc' = [fn |-> "calculateIconMoveTransforms", x |-> o[1], y |-> o[2],
                     t |-> EmptyArray, dY |-> bounceHeight + 1]
    /\ pc' = "calculateIconMoveTransforms_test"
    /\ ret' = NoValue
    /\ UNCHANGED outer
    /\ TimingUnchanged

calculateIconMoveTransforms_test ==
    /\ pc = "calculateIconMoveTransforms_test"
    /\ IF loc.dY # 0
       THEN /\ pc' = "calculateIconMoveTransforms_body"
            /\ loc' = [loc EXCEPT !.dY = Dec(loc.dY)]
            /\ UNCHANGED <<outer, ret>>
       ELSE Return(loc.t)
    /\ UNCHANGED call
    /\ TimingUnchanged

calculateIconMoveTransforms_body ==
    /\ pc = "calculateIconMoveTransforms_body"
    /\ loc' = [loc EXCEPT !.t = ArrSet(loc.t, loc.dY, Matrix3d(loc.x, loc.y - loc.dY))]
    /\ pc' = "calculateIconMoveTransforms_test"
    /\ UNCHANGED <<outer, ret, call>>
    /\ TimingUnchanged

calculateShadowMoveTransforms_call(heights) ==
    /\ pc = "idle"
    /\ \E o \in Origins, bounceHeight \in heights, angle \in Angles \cup {Null} :
          /\ call' = [op |-> "calculateShadowMoveTransforms", x |-> o[1], y |-> o[2],
                      bounceHeight |-> bounceHeight, angle |-> angle]
          /\ loc' = [fn |-> "calculateShadowMoveTransforms", x |-> o[1], y |-> o[2],
                     bounceHeight |-> bounceHeight, angle |-> angle,
                     t |-> EmptyArray, dY |-> bounceHeight + 1,
                     p |-> EmptyArray, i |-> 0,
                     resume |-> "calculateShadowMoveTransforms_line"]
    /\ pc' = "calculateShadowMoveTransforms_if"
    /\ ret' = NoValue
    /\ UNCHANGED outer
    /\ TimingUnchanged

calculateShadowMoveTransforms_if ==
    /\ pc = "calculateShadowMoveTransforms_if"
    /\ IF AngleGiven(loc.angle)
       THEN /\ outer' = loc
            /\ loc' = LineInit(loc.x, loc.y, loc.angle, loc.bounceHeight + 1)
            /\ pc' = "calculateLine_loop"
       ELSE /\ pc' = "calculateShadowMoveTransforms_for"
            /\ UNCHANGED <<loc, outer>>
    /\ UNCHANGED <<ret, call>>
    /\ TimingUnchanged

\* p = calculateLine(...)
calculateShadowMoveTransforms_line ==
    /\ pc = "calculateShadowMoveTransforms_line"
    /\ loc' = [loc EXCEPT !.p = ret]
    /\ pc' = "calculateShadowMoveTransforms_test"
    /\ UNCHANGED <<outer, ret, call>>
    /\ TimingUnchanged

calculateShadowMoveTransforms_for ==
    /\ pc = "calculateShadowMoveTransforms_for"
    /\ IF loc.i <= loc.bounceHeight
       THEN /\ loc' = [loc EXCEPT !.p = ArrSet(loc.p, loc.i, <<loc.x, loc.y>>),
                                  !.i = loc.i + 1]
            /\ UNCHANGED pc
       ELSE /\ pc' = "calculateShadowMoveTransforms_test"
            /\ UNCHANGED loc
    /\ UNCHANGED <<outer, ret, call>>
    /\ TimingUnchanged

calculateShadowMoveTransforms_test ==
    /\ pc = "calculateShadowMoveTransforms_test"
    /\ IF loc.dY # 0
       THEN /\ pc' = "calculateShadowMoveTransforms_body"
            /\ loc' = [loc EXCEPT !.dY = Dec(loc.dY)]
            /\ UNCHANGED <<outer, ret>>
       ELSE Return(loc.t)
    /\ UNCHANGED call
    /\ TimingUnchanged

\* t[dY] = ... p[dY][0] ... p[dY][1] ...; p[dY] of a missing index is undefined,
\* and reading [0] of it throws a TypeError that ends the call
calculateShadowMoveTransforms_body ==
    /\ pc = "calculateShadowMoveTransforms_body"
    /\ IF loc.dY \in DOMAIN loc.p.elems
       THEN /\ loc' = [loc EXCEPT !.t = ArrSet(loc.t, loc.dY,
                          Matrix3d(ArrGet(loc.p, loc.dY)[1], ArrGet(loc.p, loc.dY)[2]))]
            /\ pc' = "calculateShadowMoveTransforms_test"
            /\ UNCHANGED <<outer, ret>>
       ELSE /\ pc' = "idle"
            /\ ret' = [error |-> "TypeError"]
            /\ loc' = NoFrame
            /\ UNCHANGED outer
    /\ UNCHANGED call
    /\ TimingUnchanged

----------------------------------------------------------------------------
(* calculateSteps (helpers.js:252-278).                                     *)

\* faulty variant of CacheHit: the cache is never consulted
CacheNever(key) == FALSE

\* if (bouncingMotionsCache[key]): the entries are arrays, and every array is truthy
CacheHit(key) == key \in DOMAIN bouncingMotionsCache

\* key = prefix + height
StepsKey(prefix, height) == prefix \o Str(height)

\* faulty variant of StepsAscending: while (i < height)
StepsAscendingShort(i, height) == i < height

\* while (i <= height)
StepsAscending(i, height) == i <= height

StepsFrame(height, prefix) ==
    [fn |-> "calculateSteps", height |-> height, prefix |-> prefix,
     key |-> StepsKey(prefix, height), steps |-> EmptyArray, i |-> 0]

\* a return of calculateSteps, with its record in the history
StepsReturn(ref, hit) ==
    LET req == <<"calculateSteps", loc.prefix, loc.height, 0>>
    IN  /\ Return(ref)
        /\ lastSteps' = [valid |-> TRUE, height |-> loc.height, prefix |-> loc.prefix,
                         hit |-> hit, ref |-> ref]
        /\ seen' = IF req \in DOMAIN seen THEN seen ELSE (req :> ref) @@ seen

calculateSteps_call(heights, limit) ==
    /\ pc = "idle"
    /\ calls < limit
    /\ \E height \in heights, prefix \in Prefixes :
          /\ call' = [op |-> "calculateSteps", height |-> height, prefix |-> prefix]
          /\ loc' = StepsFrame(height, prefix)
    /\ pc' = "calculateSteps_check"
    /\ calls' = calls + 1
    /\ ret' = NoValue
    /\ lastSteps' = NoReturn
    /\ lastDelays' = NoReturn
    /\ UNCHANGED <<outer, bouncingMotionsCache, heap, madeBy, marker, seen>>

\* lines 257-265
calculateSteps_check ==
    /\ pc = "calculateSteps_check"
    /\ IF CacheHit(loc.key)
       THEN StepsReturn(bouncingMotionsCache[loc.key], TRUE)
       ELSE /\ loc' = [loc EXCEPT !.i = 1]
            /\ pc' = "calculateSteps_up"
            /\ UNCHANGED <<outer, ret, lastSteps, seen>>
    /\ UNCHANGED <<bouncingMotionsCache, heap, madeBy, marker, calls, call, lastDelays>>

\* lines 266-270
calculateSteps_up ==
    /\ pc = "calculateSteps_up"
    /\ IF StepsAscending(loc.i, loc.height)
       THEN /\ loc' = [loc EXCEPT !.steps = ArrPush(loc.steps, loc.i), !.i = loc.i + 1]
            /\ UNCHANGED pc
       ELSE /\ loc' = [loc EXCEPT !.i = loc.height]
            /\ pc' = "calculateSteps_down_test"
    /\ UNCHANGED <<outer, ret, call>>
    /\ TimingUnchanged

\* while (i--)
calculateSteps_down_test ==
    /\ pc = "calculateSteps_down_test"
    /\ pc' = IF loc.i # 0 THEN "calculateSteps_down_body" ELSE "calculateSteps_store"
    /\ loc' = [loc EXCEPT !.i = Dec(loc.i)]
    /\ UNCHANGED <<outer, ret, call>>
    /\ TimingUnchanged

\* steps.push(i)
calculateSteps_down_body ==
    /\ pc = "calculateSteps_down_body"
    /\ loc.steps.length < LoopCap
    /\ loc' = [loc EXCEPT !.steps = ArrPush(loc.steps, loc.i)]
    /\ pc' = "calculateSteps_down_test"
    /\ UNCHANGED <<outer, ret, call>>
    /\ TimingUnchanged

\* lines 275-277
calculateSteps_store ==
    /\ pc = "calculateSteps_store"
    /\ heap' = Append(heap, loc.steps)
    /\ madeBy' = Append(madeBy, "calculateSteps")
    /\ bouncingMotionsCache' = (loc.key :> (Len(heap) + 1)) @@ bouncingMotionsCache
    /\ StepsReturn(Len(heap) + 1, FALSE)
    /\ UNCHANGED <<marker, calls, call, lastDelays>>

----------------------------------------------------------------------------
(* calculateDelays (helpers.js:294-334).                                    *)

\* key = prefix + height + '_' + speed
DelaysKey(prefix, height, speed) == prefix \o Str(height) \o "_" \o Str(speed)

\* faulty variant of DeltaAt: Math.floor instead of Math.round
DeltaFloor(speed, height, i) == speed \div (height - i)

\* Math.round(speed / (height - i))
DeltaAt(speed, height, i) == MathRound(speed, height - i)

DelaysFrame(height, speed, prefix) ==
    [fn |-> "calculateDelays", height |-> height, speed |-> speed, prefix |-> prefix,
     key |-> DelaysKey(prefix, height, speed), deltas |-> EmptyArray,
     delays |-> EmptyArray, totalDelay |-> 0, l |-> 0, i |-> 0]

DelaysReturn(ref, hit) ==
    LET req == <<"calculateDelays", loc.prefix, loc.height, loc.speed>>
    IN  /\ Return(ref)
        /\ lastDelays' = [valid |-> TRUE, height |-> loc.height, speed |-> loc.speed,
                          prefix |-> loc.prefix, hit |-> hit, ref |-> ref]
        /\ seen' = IF req \in DOMAIN seen THEN seen ELSE (req :> ref) @@ seen

calculateDelays_call(heights, limit) ==
    /\ pc = "idle"
    /\ calls < limit
    /\ \E height \in heights, speed \in Speeds, prefix \in Prefixes :
          /\ call' = [op |-> "calculateDelays", height |-> height, speed |-> speed,
                      prefix |-> prefix]
          /\ loc' = DelaysFrame(height, speed, prefix)
    /\ pc' = "calculateDelays_check"
    /\ calls' = calls + 1
    /\ ret' = NoValue
    /\ lastSteps' = NoReturn
    /\ lastDelays' = NoReturn
    /\ UNCHANGED <<outer, bouncingMotionsCache, heap, madeBy, marker, seen>>

\* lines 302-312
calculateDelays_check ==
    /\ pc = "calculateDelays_check"
    /\ IF CacheHit(loc.key)
       THEN DelaysReturn(bouncingMotionsCache[loc.key], TRUE)
       ELSE /\ loc' = [loc EXCEPT
                          !.deltas = ArrSet(ArrSet(EmptyArray, loc.height, loc.speed), 0, 0),
                          !.i = loc.height]
            /\ pc' = "calculateDelays_delta_test"
            /\ UNCHANGED <<outer, ret, lastDelays, seen>>
    /\ UNCHANGED <<bouncingMotionsCache, heap, madeBy, marker, calls, call, lastSteps>>

\* while (--i), and i = height (line 318) once it ends
calculateDelays_delta_test ==
    /\ pc = "calculateDelays_delta_test"
    /\ IF Dec(loc.i) # 0
       THEN /\ loc' = [loc EXCEPT !.i = Dec(loc.i)]
            /\ pc' = "calculateDelays_delta_body"
       ELSE /\ loc' = [loc EXCEPT !.i = loc.height]
            /\ pc' = "calculateDelays_mirror_test"
    /\ UNCHANGED <<outer, ret, call>>
    /\ TimingUnchanged

\* deltas[i] = Math.round(speed / (height - i))
calculateDelays_delta_body ==
    /\ pc = "calculateDelays_delta_body"
    /\ loc' = [loc EXCEPT !.deltas = ArrSet(loc.deltas, loc.i,
                                            DeltaAt(loc.speed, loc.height, loc.i))]
    /\ pc' = "calculateDelays_delta_test"
    /\ UNCHANGED <<outer, ret, call>>
    /\ TimingUnchanged

\* while (i--), and i = 0, l = deltas.length (line 325) once it ends
calculateDelays_mirror_test ==
    /\ pc = "calculateDelays_mirror_test"
    /\ IF loc.i # 0
       THEN /\ loc' = [loc EXCEPT !.i = Dec(loc.i)]
            /\ pc' = "calculateDelays_mirror_body"
       ELSE /\ loc' = [loc EXCEPT !.i = 0, !.l = loc.deltas.length]
            /\ pc' = "calculateDelays_sum"
    /\ UNCHANGED <<outer, ret, call>>
    /\ TimingUnchanged

\* faulty variant of MirrorPush: deltas[i] = deltas[i], nothing is appended
MirrorInPlace(deltas, i) == ArrSet(deltas, i, ArrGet(deltas, i))

\* deltas.push(deltas[i])
MirrorPush(deltas, i) == ArrPush(deltas, ArrGet(deltas, i))

calculateDelays_mirror_body ==
    /\ pc = "calculateDelays_mirror_body"
    /\ loc' = [loc EXCEPT !.deltas = MirrorPush(loc.deltas, loc.i)]
    /\ pc' = "calculateDelays_mirror_test"
    /\ UNCHANGED <<outer, ret, call>>
    /\ TimingUnchanged

\* for (i = 0, l = deltas.length; i < l; i++)
calculateDelays_sum ==
    /\ pc = "calculateDelays_sum"
    /\ IF loc.i < loc.l
       THEN /\ loc' = [loc EXCEPT
                          !.totalDelay = loc.totalDelay + ArrGet(loc.deltas, loc.i),
                          !.delays = ArrPush(loc.delays,
                                             loc.totalDelay + ArrGet(loc.deltas, loc.i)),
                          !.i = loc.i + 1]
            /\ UNCHANGED pc
       ELSE /\ pc' = "calculateDelays_store"
            /\ UNCHANGED loc
    /\ UNCHANGED <<outer, ret, call>>
    /\ TimingUnchanged

\* lines 330-333
calculateDelays_store ==
    /\ pc = "calculateDelays_store"
    /\ heap' = Append(heap, loc.delays)
    /\ madeBy' = Append(madeBy, "calculateDelays")
    /\ bouncingMotionsCache' = (loc.key :> (Len(heap) + 1)) @@ bouncingMotionsCache
    /\ DelaysReturn(Len(heap) + 1, FALSE)
    /\ UNCHANGED <<marker, calls, call, lastSteps>>

----------------------------------------------------------------------------
(* calculateTimeline (helpers.js:350-368).                                  *)

BouncingOptions ==
    [bounceHeight : Heights, bounceSpeed : Speeds, elastic : BOOLEAN,
     contractHeight : Heights, contractSpeed : Speeds]

\* faulty variant of Elastic: the resize animation is always recalculated
ElasticAlways(options) == TRUE

\* if (elastic)
Elastic(options) == options.elastic

\* the call of a function of the timing engine from calculateTimeline
TimelineCalls(frame, resume) ==
    /\ outer' = [loc EXCEPT !.resume = resume]
    /\ loc' = frame
    /\ pc' = IF frame.fn = "calculateSteps" THEN "calculateSteps_check"
                                            ELSE "calculateDelays_check"

\* the marker comes with any bounce configuration and the motion it was left with
calculateTimeline_call(limit) ==
    /\ pc = "idle"
    /\ calls < limit
    /\ \E options \in BouncingOptions :
          /\ marker' = [marker EXCEPT !._bouncingOptions = options]
          /\ call' = [op |-> "calculateTimeline", marker |-> marker']
          /\ loc' = [fn |-> "calculateTimeline", bouncingOptions |-> options,
                     resume |-> "none"]
    /\ pc' = "calculateTimeline_start"
    /\ calls' = calls + 1
    /\ ret' = NoValue
    /\ lastSteps' = NoReturn
    /\ lastDelays' = NoReturn
    /\ UNCHANGED <<outer, bouncingMotionsCache, heap, madeBy, seen>>

\* line 355, up to the call
calculateTimeline_start ==
    /\ pc = "calculateTimeline_start"
    /\ TimelineCalls(StepsFrame(loc.bouncingOptions.bounceHeight, "moveSteps_"),
                     "calculateTimeline_moveSteps")
    /\ UNCHANGED <<ret, call>>
    /\ TimingUnchanged

\* line 355, the assignment, and line 356 up to the call
calculateTimeline_moveSteps ==
    /\ pc = "calculateTimeline_moveSteps"
    /\ marker' = [marker EXCEPT !._bouncingMotion.moveSteps = ret]
    /\ TimelineCalls(DelaysFrame(loc.bouncingOptions.bounceHeight,
                                 loc.bouncingOptions.bounceSpeed, "moveDelays_"),
                     "calculateTimeline_moveDelays")
    /\ UNCHANGED <<ret, call, bouncingMotionsCache, heap, madeBy, calls,
                   lastSteps, lastDelays, seen>>

\* line 356, the assignment, and lines 359-362 up to the call (or line 367)
calculateTimeline_moveDelays ==
    /\ pc = "calculateTimeline_moveDelays"
    /\ marker' = [marker EXCEPT !._bouncingMotion.moveDelays = ret]
    /\ IF Elastic(loc.bouncingOptions)
       THEN /\ TimelineCalls(StepsFrame(loc.bouncingOptions.contractHeight, "resizeSteps_"),
                             "calculateTimeline_resizeSteps")
            /\ UNCHANGED ret
       ELSE Return(marker')
    /\ UNCHANGED <<call, bouncingMotionsCache, heap, madeBy, calls,
                   lastSteps, lastDelays, seen>>

\* line 362, the assignment, and line 363 up to the call
calculateTimeline_resizeSteps ==
    /\ pc = "calculateTimeline_resizeSteps"
    /\ marker' = [marker EXCEPT !._bouncingMotion.resizeSteps = ret]
    /\ TimelineCalls(DelaysFrame(loc.bouncingOptions.contractHeight,
                                 loc.bouncingOptions.contractSpeed, "resizeDelays_"),
                     "calculateTimeline_resizeDelays")
    /\ UNCHANGED <<ret, call, bouncingMotionsCache, heap, madeBy, calls,
                   lastSteps, lastDelays, seen>>

\* line 363, the assignment, and line 367
calculateTimeline_resizeDelays ==
    /\ pc = "calculateTimeline_resizeDelays"
    /\ marker' = [marker EXCEPT !._bouncingMotion.resizeDelays = ret]
    /\ Return(marker')
    /\ UNCHANGED <<call, bouncingMotionsCache, heap, madeBy, calls,
                   lastSteps, lastDelays, seen>>

----------------------------------------------------------------------------
(* Initial state and the trajectory builder's behaviours.                   *)

Init ==
    /\ bouncingMotionsCache = <<>>
    /\ heap = <<>>
    /\ madeBy = <<>>
    /\ marker = [_bouncingOptions |-> DefaultOptions, _bouncingMotion |-> NoMotion]
    /\ pc = "idle"
    /\ call = [op |-> "none"]
    /\ loc = NoFrame
    /\ outer = NoFrame
    /\ ret = NoValue
    /\ calls = 0
    /\ lastSteps = NoReturn
    /\ lastDelays = NoReturn
    /\ seen = <<>>

NextTrajectory ==
    \/ calculateLine_call(Lengths)
    \/ calculateLine_loop
    \/ calculateLine_return
    \/ calculateIconMovePoints_call(Heights)
    \/ calculateIconMovePoints_test
    \/ calculateIconMovePoints_body
    \/ calculateShadowMovePoints_call(Heights)
    \/ calculateShadowMovePoints_if
    \/ calculateShadowMovePoints_return
    \/ calculateShadowMovePoints_for
    \/ calculateIconMoveTransforms_call(Heights)
    \/ calculateIconMoveTransforms_test
    \/ calculateIconMoveTransforms_body
    \/ calculateShadowMoveTransforms_call(Heights)
    \/ calculateShadowMoveTransforms_if
    \/ calculateShadowMoveTransforms_line
    \/ calculateShadowMoveTransforms_for
    \/ calculateShadowMoveTransforms_test
    \/ calculateShadowMoveTransforms_body

SpecTrajectory == Init /\ [][NextTrajectory]_vars

----------------------------------------------------------------------------
(* The timing engine's behaviours.                                          *)

CallEngine(limit) ==
    \/ calculateSteps_call(Heights, limit)
    \/ calculateDelays_call(Heights, limit)

RunEngine ==
    \/ calculateSteps_check
    \/ calculateSteps_up
    \/ calculateSteps_down_test
    \/ calculateSteps_down_body
    \/ calculateSteps_store
    \/ calculateDelays_check
    \/ calculateDelays_delta_test
    \/ calculateDelays_delta_body
    \/ calculateDelays_mirror_test
    \/ calculateDelays_mirror_body
    \/ calculateDelays_sum
    \/ calculateDelays_store

\* calculateSteps and calculateDelays called directly, in any order
SpecEngine == Init /\ [][CallEngine(MaxCalls) \/ RunEngine]_vars

CallTiming(limit) ==
    \/ CallEngine(limit)
    \/ calculateTimeline_call(limit)

RunTiming ==
    \/ RunEngine
    \/ calculateTimeline_start
    \/ calculateTimeline_moveSteps
    \/ calculateTimeline_moveDelays
    \/ calculateTimeline_resizeSteps
    \/ calculateTimeline_resizeDelays

NextTiming == CallTiming(MaxCalls) \/ RunTiming

\* the same, with calculateTimeline
SpecTiming == Init /\ [][NextTiming]_vars

FairCalls == 1      \* top-level calls in a behaviour of FairTiming

\* JavaScript runs a started call to completion: a step that can be taken is taken
FairTiming == Init /\ [][CallTiming(FairCalls) \/ RunTiming]_vars /\ WF_vars(RunTiming)

----------------------------------------------------------------------------
(* Calls with an argument outside the domain: a length <= 0, a negative     *)
(* height.  Only the actions such a call reaches are listed.                *)

NextInvalid ==
    \/ calculateLine_call(InvalidLengths)
    \/ calculateLine_loop
    \/ calculateIconMovePoints_call(InvalidHeights)
    \/ calculateIconMovePoints_test
    \/ calculateIconMovePoints_body
    \/ calculateShadowMovePoints_call(InvalidHeights)
    \/ calculateShadowMovePoints_if
    \/ calculateShadowMovePoints_for
    \/ calculateSteps_call(InvalidHeights, MaxCalls)
    \/ calculateSteps_check
    \/ calculateSteps_up
    \/ calculateSteps_down_test
    \/ calculateSteps_down_body
    \/ calculateDelays_call(InvalidHeights, MaxCalls)
    \/ calculateDelays_check
    \/ calculateDelays_delta_test
    \/ calculateDelays_delta_body

SpecInvalid == Init /\ [][NextInvalid]_vars

----------------------------------------------------------------------------
(* What the claims speak of.                                                *)

\* the step sequence of a height: 1, ..., height, height - 1, ..., 0
StepSeq(height) ==
    [n \in 1..(2 * height) |-> IF n <= height THEN n ELSE 2 * height - n]

\* the nearest integer to s / d (d > 0), the upper one of two
Nearest(s, d) ==
    CHOOSE r \in 0..s : (2 * r - 1) * d <= 2 * s /\ 2 * s < (2 * r + 1) * d

\* delta[k] on the way out, 0 <= k <= height
DeltaOut(height, speed, k) ==
    IF k = 0 THEN 0
    ELSE IF k = height THEN speed
    ELSE Nearest(speed, height - k)

\* entry j of delta[0], ..., delta[height], delta[height - 1], ..., delta[0]
DeltaBothWays(height, speed, j) ==
    DeltaOut(height, speed, IF j <= height THEN j ELSE 2 * height - j)

RECURSIVE DeltaSum(_, _, _)
DeltaSum(height, speed, j) ==
    IF j < 0 THEN 0
    ELSE DeltaSum(height, speed, j - 1) + DeltaBothWays(height, speed, j)

DelayTable(height, speed) ==
    [n \in 1..(2 * height + 1) |-> DeltaSum(height, speed, n - 1)]

Copies(x, y, n) == [length |-> n, elems |-> [k \in 0..(n - 1) |-> <<x, y>>]]

Over(op) == pc = "idle" /\ call.op = op

StepsComputed == lastSteps.valid /\ ~lastSteps.hit
DelaysComputed == lastDelays.valid /\ ~lastDelays.hit

----------------------------------------------------------------------------
(* C1: a calculateSteps call that finds no cache entry returns              *)
(* 1, ..., height, height - 1, ..., 0: 2 * height entries, none for 0.      *)
C1_StepsSequence ==
    StepsComputed =>
        LET a == heap[lastSteps.ref]
        IN  /\ a.length = 2 * lastSteps.height
            /\ DOMAIN a.elems = 0..(a.length - 1)
            /\ AsSeq(a) = StepSeq(lastSteps.height)

C1_Witness == StepsComputed /\ lastSteps.height = MaxHeight /\ Over("calculateSteps")

----------------------------------------------------------------------------
----------------------------------------------------------------------------
----------------------------------------------------------------------------
(* C4: calculateLine returns exactly length points, the first is the        *)
(* origin, and each later point differs from the one before by at most 1    *)
(* in x and in y, and is not the same point.                                *)
C4_LinePoints ==
    Over("calculateLine") =>
        /\ ret.length = call.length
        /\ DOMAIN ret.elems = 0..(call.length - 1)
        /\ ret.elems[0] = <<call.x, call.y>>
        /\ \A k \in 1..(ret.length - 1) :
              /\ MathAbs(ret.elems[k][1] - ret.elems[k - 1][1]) <= 1
              /\ MathAbs(ret.elems[k][2] - ret.elems[k - 1][2]) <= 1
              /\ ret.elems[k] # ret.elems[k - 1]

C4_Witness ==
    Over("calculateLine") /\ call.length = MaxLength /\ call.angle = <<1>>

----------------------------------------------------------------------------
(* C5: calculateShadowMovePoints returns bounceHeight + 1 copies of the     *)
(* origin for the null angle, and for every number, 0 included, the line    *)
(* calculateLine(x, y, angle, bounceHeight + 1), which leaves the origin;   *)
(* calculateShadowMoveTransforms renders the same positions, one            *)
(* transform per position, in order.                                        *)
ShadowPositions(c) ==
    IF c.angle = Null
    THEN Copies(c.x, c.y, c.bounceHeight + 1)
    ELSE calculateLine(c.x, c.y, c.angle, c.bounceHeight + 1)

----------------------------------------------------------------------------
(* C6: calculateTimeline sets moveSteps and moveDelays to what              *)
(* calculateSteps(bounceHeight, 'moveSteps_') and calculateDelays(          *)
(* bounceHeight, bounceSpeed, 'moveDelays_') return; it sets resizeSteps    *)
(* and resizeDelays (from contractHeight and contractSpeed) when elastic,   *)
(* leaves them as they were when not; it leaves the bounce configuration    *)
(* as it was and returns the marker.                                        *)
C6_TimelineWrites ==
    Over("calculateTimeline") =>
        LET o == call.marker._bouncingOptions
            before == call.marker._bouncingMotion
            m == marker._bouncingMotion
            stepsOf(prefix, h) == bouncingMotionsCache[prefix \o ToString(h)]
            delaysOf(prefix, h, v) ==
                bouncingMotionsCache[prefix \o ToString(h) \o "_" \o ToString(v)]
        IN  /\ m.moveSteps = stepsOf("moveSteps_", o.bounceHeight)
            /\ m.moveDelays = delaysOf("moveDelays_", o.bounceHeight, o.bounceSpeed)
            /\ o.elastic =>
                  /\ m.resizeSteps = stepsOf("resizeSteps_", o.contractHeight)
                  /\ m.resizeDelays =
                        delaysOf("resizeDelays_", o.contractHeight, o.contractSpeed)
            /\ ~o.elastic =>
                  /\ m.resizeSteps = before.resizeSteps
                  /\ m.resizeDelays = before.resizeDelays
            /\ marker._bouncingOptions = o
            /\ ret = marker

\* a second, non-elastic call on a marker whose resize animation was calculated
C6_Witness ==
    /\ Over("calculateTimeline")
    /\ ~marker._bouncingOptions.elastic
    /\ marker._bouncingMotion.resizeSteps # Undefined
    /\ marker._bouncingMotion.resizeSteps # marker._bouncingMotion.moveSteps

----------------------------------------------------------------------------
(* C7: two calls of calculateSteps with the same (height, prefix), or of    *)
(* calculateDelays with the same (height, speed, prefix), return the same   *)
(* cached array; an entry of the cache, once written, is never              *)
(* overwritten, changed or removed.                                         *)
SameInstance ==
    /\ lastSteps.valid =>
          seen[<<"calculateSteps", lastSteps.prefix, lastSteps.height, 0>>]
              = lastSteps.ref
    /\ lastDelays.valid =>
          seen[<<"calculateDelays", lastDelays.prefix, lastDelays.height,
                 lastDelays.speed>>] = lastDelays.ref

EntriesKept ==
    \A key \in DOMAIN bouncingMotionsCache :
        /\ key \in DOMAIN bouncingMotionsCache'
        /\ bouncingMotionsCache'[key] = bouncingMotionsCache[key]
        /\ heap'[bouncingMotionsCache[key]] = heap[bouncingMotionsCache[key]]

C7_CacheStable == [][EntriesKept /\ SameInstance']_vars

\* the second of two calculateDelays calls with the same arguments has returned
C7_Witness ==
    /\ Over("calculateDelays")
    /\ calls = 2
    /\ lastDelays.valid
    /\ lastDelays.hit
    /\ madeBy[lastDelays.ref] = "calculateDelays"

----------------------------------------------------------------------------
(* C8: every operation terminates on every input of its domain; for the     *)
(* timing engine, every call of calculateSteps, calculateDelays and         *)
(* calculateTimeline with heights >= 0 and speeds > 0 that starts, returns. *)
C8_Terminates == [](pc # "idle" => <>(pc = "idle"))

----------------------------------------------------------------------------
(* C9: a call with an invalid argument (a length <= 0, a negative height)   *)
(* is rejected with an error: it runs no loop, returns no array and writes  *)
(* no cache entry.                                                          *)
IsError(v) == "error" \in DOMAIN v

C9_InvalidRejected ==
    /\ pc = "idle" /\ call.op # "none" => IsError(ret)
    /\ pc \notin {"calculateIconMovePoints_body", "calculateSteps_down_body",
                  "calculateDelays_delta_body"}
    /\ bouncingMotionsCache = <<>>

----------------------------------------------------------------------------
(* C10: whatever calls came before, with prefixes that are any strings      *)
(* ending in "_", calculateSteps returns the step sequence of its height    *)
(* and calculateDelays the delay table of its height and speed: no two      *)
(* different requests read the same cache entry.                            *)
C10_Isolated ==
    /\ lastSteps.valid =>
          AsSeq(heap[lastSteps.ref]) = StepSeq(lastSteps.height)
    /\ lastDelays.valid =>
          AsSeq(heap[lastDelays.ref]) = DelayTable(lastDelays.height, lastDelays.speed)

====
